---- MODULE Spec2Model ----
(***************************************************************************)
(* Workbook-to-CSV converters of the fmr repository:                       *)
(*   scripts/convert_excel.py     (pandas, argument-taking)                *)
(*   scripts/convert_fmr_xlsx.py  (openpyxl, argument-taking, tolerant)    *)
(*   scripts/convert_fmr_2025.py  (openpyxl, fixed paths, tolerant)        *)
(* One process holds the two module attributes through which openpyxl      *)
(* looks up its ISO-8601 parser; a run of a script is a sequence of steps. *)
(***************************************************************************)
EXTENDS Integers, Sequences, FiniteSets, TLC

\* ------------------------------------------------------------------ bounds
MaxRows == 2
MaxCols == 2
RecursionLimit == 3

\* convert_fmr_xlsx.py:67  `if idx % 2000 == 0`
ProgressEvery == 2000
\* len(sys.argv) the argument-taking scripts require
RequiredArgv == 3
\* largest number of positional arguments a run is started with
MaxArgs == 3

\* ------------------------------------------------------------ text values
Digits == <<"0", "1", "2", "3", "4", "5", "6", "7", "8", "9">>

IsDigit(c) == \E i \in 1..10 : Digits[i] = c

DigitVal(c) == (CHOOSE i \in 1..10 : Digits[i] = c) - 1

RECURSIVE Num(_)
\* int("...") of a sequence of digit characters
Num(cs) == IF cs = <<>> THEN 0 ELSE 10 * Num(SubSeq(cs, 1, Len(cs) - 1)) + DigitVal(cs[Len(cs)])

RECURSIVE IntToStr(_)
\* str(n) for n >= 0
IntToStr(n) == IF n < 10 THEN <<Digits[n + 1]>> ELSE IntToStr(n \div 10) \o <<Digits[(n % 10) + 1]>>

RECURSIVE Replace(_, _, _)
\* Python str.replace(old, new): leftmost, non-overlapping occurrences, one pass
Replace(s, old, new) ==
  IF Len(s) < Len(old) THEN s
  ELSE IF SubSeq(s, 1, Len(old)) = old
       THEN new \o Replace(SubSeq(s, Len(old) + 1, Len(s)), old, new)
       ELSE <<Head(s)>> \o Replace(Tail(s), old, new)

HasSpace(s) == \E i \in 1..Len(s) : s[i] = " "

\* ------------------------------------------------- values handed to a parser
\* [t: Python type, n: numeric value, chars: text of a str]
StrVal(cs) == [t |-> "str", n |-> 0, chars |-> cs]
NoneVal == [t |-> "none", n |-> 0, chars |-> <<>>]
IntVal(k) == [t |-> "int", n |-> k, chars |-> <<>>]
FloatVal(k) == [t |-> "float", n |-> k, chars |-> <<>>]

\* str(x)
PyStr(x) ==
  CASE x.t = "none" -> <<"N", "o", "n", "e">>
    [] x.t = "str" -> x.chars
    [] x.t = "int" -> IntToStr(x.n)
    [] x.t = "float" -> IntToStr(x.n) \o <<".", "0">>

\* ------------------------------------------------------- parser outcomes
Raise == [kind |-> "raise", fields |-> <<>>]
Now == [kind |-> "now", fields |-> <<>>]
DateTime(f) == [kind |-> "datetime", fields |-> f]

\* The library's strict parser: YYYY-MM-DDTHH:MM:SSZ with every component
\* zero-padded; anything else raises ValueError.
from_ISO8601(cs) ==
  IF /\ Len(cs) = 20
     /\ \A i \in {1, 2, 3, 4, 6, 7, 9, 10, 12, 13, 15, 16, 18, 19} : IsDigit(cs[i])
     /\ cs[5] = "-" /\ cs[8] = "-" /\ cs[11] = "T"
     /\ cs[14] = ":" /\ cs[17] = ":" /\ cs[20] = "Z"
  THEN DateTime(<<Num(SubSeq(cs, 1, 4)), Num(SubSeq(cs, 6, 7)), Num(SubSeq(cs, 9, 10)),
                  Num(SubSeq(cs, 12, 13)), Num(SubSeq(cs, 15, 16)), Num(SubSeq(cs, 18, 19))>>)
  ELSE Raise

\* the three chained replaces of the tolerant parser
RepairWrongOrder(cs) == Replace(Replace(Replace(cs, <<"-", " ">>, <<"-", "0">>), <<"T", " ">>, <<"T", "0">>), <<" ", " ">>, <<" ">>)

Repair(cs) == Replace(Replace(Replace(cs, <<" ", " ">>, <<" ">>), <<"-", " ">>, <<"-", "0">>), <<"T", " ">>, <<"T", "0">>)

\* `fixed = ...` of patched_from_ISO8601: convert_fmr_xlsx applies str() first,
\* convert_fmr_2025 calls .replace on the argument itself (AttributeError
\* when it is not a string).
Fixed(v, x) ==
  IF v = "xlsx" THEN StrVal(Repair(PyStr(x)))
  ELSE IF x.t = "str" THEN StrVal(Repair(x.chars)) ELSE Raise

Original == "from_ISO8601"
Patched == "patched_from_ISO8601"
Sites == {"utils_datetime", "descriptors_base"}

RECURSIVE patched_from_ISO8601(_, _, _, _)
\* One call of the tolerant parser of variant v on x, at Python call depth
\* `depth`, while the module attributes are `at`.  The parser it delegates
\* to is looked up in openpyxl.utils.datetime when the call runs.
patched_from_ISO8601(v, x, at, depth) ==
  IF depth > RecursionLimit THEN Raise
  ELSE LET fixed == Fixed(v, x)
           r == IF fixed = Raise THEN Raise
                ELSE IF at["utils_datetime"] = Patched
                     THEN patched_from_ISO8601(v, fixed, at, depth + 1)
                     ELSE from_ISO8601(fixed.chars)
       IN  IF r = Raise THEN Now ELSE r

\* ------------------------------------------------------------- timestamps
Kinds == {"pad", "sp", "dsp", "two"}

Comp(k, d) ==
  CASE k = "pad" -> <<"0", d>>
    [] k = "sp" -> <<" ", d>>
    [] k = "dsp" -> <<" ", " ", d>>
    [] k = "two" -> <<"1", d>>

StampOf(mo, dy, hr, mi) ==
  <<"2", "0", "2", "5", "-">> \o Comp(mo, "2") \o <<"-">> \o Comp(dy, "8") \o <<"T">>
    \o Comp(hr, "9") \o <<":">> \o Comp(mi, "5") \o <<":", "3", "1", "Z">>

Garbage == <<"n", "/", "a">>

AllStamps == {StampOf(a, b, c, d) : a \in Kinds, b \in Kinds, c \in Kinds, d \in Kinds} \cup {Garbage}


WellFormed == StampOf("pad", "two", "two", "two")
\* '2025- 2-18T19:15:31Z', the shape named in convert_fmr_2025.py:14
SpaceMonth == StampOf("sp", "two", "two", "two")
SpaceMinute == StampOf("pad", "two", "two", "sp")

FewStamps == {WellFormed, SpaceMonth, SpaceMinute, Garbage}

\* arguments of a direct call that are not strings
NonStrings == {NoneVal, IntVal(42)}

\* ------------------------------------------------------------- worksheets
Cells == {NoneVal, IntVal(7)}

\* every worksheet of at most MaxRows rows and MaxCols columns
AllSheets == UNION {[1..r -> [1..c -> Cells]] : r \in 0..MaxRows, c \in 1..MaxCols}

FewSheets == {sh \in AllSheets : \A i \in 1..Len(sh) : Len(sh[i]) = 1}

\* csv.writer's text of one field: None is written as '', a str as itself,
\* anything else through str()
CsvField(x) == IF x.t = "none" THEN <<>> ELSE PyStr(x)

\* convert_fmr_xlsx.py:66  ["" if cell is None else cell for cell in row]
RowXlsxReversed(row) == [j \in 1..Len(row) |-> CsvField(IF row[Len(row) + 1 - j].t = "none" THEN StrVal(<<>>) ELSE row[Len(row) + 1 - j])]

RowXlsx(row) == [j \in 1..Len(row) |-> CsvField(IF row[j].t = "none" THEN StrVal(<<>>) ELSE row[j])]

\* convert_fmr_2025.py:39  [str(cell) if cell is not None else '' for cell in row]
Row2025NoGuard(row) == [j \in 1..Len(row) |-> StrVal(PyStr(row[j]))]

Row2025(row) == [j \in 1..Len(row) |-> IF row[j].t # "none" THEN StrVal(PyStr(row[j])) ELSE StrVal(<<>>)]

\* csv.writer.writerows over the buffered rows
WriteRows(rs) == [i \in 1..Len(rs) |-> [j \in 1..Len(rs[i]) |-> CsvField(rs[i][j])]]

\* ---- pandas (convert_excel.py): the first row names the columns
Unnamed(j) == <<"U", "n", "n", "a", "m", "e", "d", ":", " ">> \o IntToStr(j - 1)

BaseName(header, j) == IF header[j].t = "none" THEN Unnamed(j) ELSE PyStr(header[j])

\* duplicate names get .1, .2, ... in column order
ColumnName(header, j) ==
  LET k == Cardinality({i \in 1..(j - 1) : BaseName(header, i) = BaseName(header, j)})
  IN  IF k = 0 THEN BaseName(header, j) ELSE BaseName(header, j) \o <<".">> \o IntToStr(k)

\* an integer column holding a missing value is read as floats
FloatColumn(body, j) ==
  /\ \E i \in 1..Len(body) : body[i][j].t = "none"
  /\ \E i \in 1..Len(body) : body[i][j].t = "int"
  /\ \A i \in 1..Len(body) : body[i][j].t \in {"none", "int"}

read_excel(sh) ==
  LET header == sh[1]
      body == Tail(sh)
  IN  [columns |-> [j \in 1..Len(header) |-> ColumnName(header, j)],
       data |-> [i \in 1..Len(body) |-> [j \in 1..Len(header) |->
                   IF FloatColumn(body, j) /\ body[i][j].t = "int"
                   THEN FloatVal(body[i][j].n) ELSE body[i][j]]]]

\* df.to_csv(output_file, index=False): the header line, then the rows, a
\* missing value as ''
to_csv(d) == <<d.columns>> \o [i \in 1..Len(d.data) |-> [j \in 1..Len(d.data[i]) |-> CsvField(d.data[i][j])]]

NoDf == [columns |-> <<>>, data |-> <<>>]

\* what the output path holds before a run
OldFile == <<<<<<"o", "l", "d">>>>>>

\* ------------------------------------------------------------------ state
VARIABLES
  at,         \* module attribute -> parser it holds, for both lookup sites
  saved,      \* original_from_ISO8601 / original_base_from_ISO8601 of the run
  variant,    \* script being run
  argc,       \* number of positional arguments (len(sys.argv) - 1)
  pc,         \* position of the run
  sheet,      \* rows of the active worksheet once the workbook is loaded
  idx,        \* rows consumed from ws.iter_rows so far
  rows,       \* convert_fmr_2025's `rows` buffer
  df,         \* convert_excel's DataFrame
  outFile,    \* records held by the output path
  opened,     \* the run has opened the output path for writing
  wbOpen,     \* the run has loaded the workbook
  stdout,     \* messages printed by the run
  err,        \* exception being propagated / handled ("none" when there is none)
  sysExit,    \* sys.exit(1) was raised in the except handler
  exitCode,   \* process exit status of the run, -1 while it has not exited
  lastParse   \* last call of a timestamp parser

vars == <<at, saved, variant, argc, pc, sheet, idx, rows, df, outFile, opened, wbOpen,
          stdout, err, sysExit, exitCode, lastParse>>

Variants == {"excel", "xlsx", "fmr2025"}
Tolerant == {"xlsx", "fmr2025"}
ArgVariants == {"excel", "xlsx"}

Msg(tag) == [tag |-> tag, text |-> ""]
ErrMsg(e) == [tag |-> "error", text |-> e]

NoParse == [during |-> FALSE, fn |-> "none", v |-> "none", site |-> "none",
            arg |-> NoneVal, fixed |-> NoneVal, result |-> Raise]

\* the record of one parser call made through `site` (or "direct")
ParseRecord(during, v, x, site, fn, a) ==
  [during |-> during, fn |-> fn, v |-> v, site |-> site, arg |-> x,
   fixed |-> IF fn = Patched THEN Fixed(v, x) ELSE x,
   result |-> IF fn = Patched THEN patched_from_ISO8601(v, x, a, 1) ELSE from_ISO8601(x.chars)]

Unset == [s \in Sites |-> "unset"]

Init ==
  /\ at = [s \in Sites |-> Original]
  /\ saved = Unset
  /\ variant = "none"
  /\ argc = 0
  /\ pc = "idle"
  /\ sheet = <<>>
  /\ idx = 0
  /\ rows = <<>>
  /\ df = NoDf
  /\ outFile = OldFile
  /\ opened = FALSE
  /\ wbOpen = FALSE
  /\ stdout = <<>>
  /\ err = "none"
  /\ sysExit = FALSE
  /\ exitCode = -1
  /\ lastParse = NoParse

\* a fresh run: nothing of the previous run survives but the module attributes
FreshRun ==
  /\ saved' = Unset
  /\ sheet' = <<>>
  /\ idx' = 0
  /\ rows' = <<>>
  /\ df' = NoDf
  /\ outFile' = OldFile
  /\ opened' = FALSE
  /\ wbOpen' = FALSE
  /\ stdout' = <<>>
  /\ err' = "none"
  /\ sysExit' = FALSE
  /\ exitCode' = -1

\* the interpreter starts script v with n positional arguments
\* (convert_fmr_2025 never reads sys.argv; its argc is kept at 0)
StartRun(v, n) ==
  /\ pc \in {"idle", "exited"}
  /\ variant' = v
  /\ argc' = IF v = "fmr2025" THEN 0 ELSE n
  /\ pc' = IF v = "fmr2025" THEN "patch" ELSE "args"
  /\ FreshRun
  /\ lastParse' = NoParse
  /\ UNCHANGED at

\* convert_excel.py:10, convert_fmr_xlsx.py:37  `len(sys.argv) != 3`
ArgsOkAtLeast(n) == n + 1 >= RequiredArgv

ArgsOk(n) == n + 1 = RequiredArgv

CheckArgs ==
  /\ pc = "args"
  /\ IF ArgsOk(argc)
     THEN /\ pc' = IF variant = "xlsx" THEN "patch" ELSE "load"
          /\ UNCHANGED <<stdout, exitCode>>
     ELSE /\ stdout' = Append(stdout, Msg("usage"))
          /\ exitCode' = 1
          /\ pc' = "exited"
  /\ UNCHANGED <<at, saved, variant, argc, sheet, idx, rows, df, outFile, opened, wbOpen,
                 err, sysExit, lastParse>>

\* the module attributes each tolerant script replaces
PatchSites(v) == IF v = "xlsx" THEN {"utils_datetime", "descriptors_base"} ELSE {"utils_datetime"}

\* convert_fmr_xlsx.py:50-54, convert_fmr_2025.py:27-28
Patch ==
  /\ pc = "patch"
  /\ saved' = [s \in Sites |-> IF s \in PatchSites(variant) THEN at[s] ELSE saved[s]]
  /\ at' = [s \in Sites |-> IF s \in PatchSites(variant) THEN Patched ELSE at[s]]
  /\ pc' = "load"
  /\ UNCHANGED <<variant, argc, sheet, idx, rows, df, outFile, opened, wbOpen, stdout, err,
                 sysExit, exitCode, lastParse>>

\* the finally blocks: convert_fmr_xlsx restores both attributes
\* unconditionally, convert_fmr_2025 restores `if original_from_ISO8601:`
RestoredUtilsOnly(v, a, sv) ==
  [s \in Sites |-> IF s = "utils_datetime" /\ sv[s] # "unset" THEN sv[s] ELSE a[s]]

Restored(v, a, sv) ==
  IF v = "xlsx" THEN [s \in Sites |-> sv[s]]
  ELSE [s \in Sites |-> IF s = "utils_datetime" /\ sv[s] # "unset" THEN sv[s] ELSE a[s]]

LoadErrors == {"FileNotFoundError", "BadZipFile"}

\* convert_fmr_xlsx.py:57-61, convert_fmr_2025.py:31-35: load_workbook reads
\* the workbook's metadata, parsing its timestamp with whatever parser the
\* lookup site holds, then the active sheet is selected and reported.
Load(SheetSet, StampSet) ==
  /\ pc = "load"
  /\ variant \in Tolerant
  /\ \/ \E e \in LoadErrors :
          /\ err' = e
          /\ pc' = "except"
          /\ stdout' = Append(stdout, Msg("reading"))
          /\ UNCHANGED <<sheet, wbOpen, lastParse>>
     \/ \E sh \in SheetSet, st \in StampSet, site \in Sites :
          LET p == ParseRecord(TRUE, variant, StrVal(st), site, at[site], at)
          IN  /\ lastParse' = p
              /\ IF p.result = Raise
                 THEN /\ err' = "ValueError"
                      /\ pc' = "except"
                      /\ stdout' = Append(stdout, Msg("reading"))
                      /\ UNCHANGED <<sheet, wbOpen>>
                 ELSE /\ sheet' = sh
                      /\ wbOpen' = TRUE
                      /\ stdout' = stdout \o <<Msg("reading"), Msg("sheet")>>
                      /\ pc' = IF variant = "xlsx" THEN "open" ELSE "rows"
                      /\ UNCHANGED err
  /\ UNCHANGED <<at, saved, variant, argc, idx, rows, df, outFile, opened, sysExit, exitCode>>

\* what a file holds right after open(path, "w"): nothing
OpenForAppend(f) == f

OpenForWrite(f) == <<>>

\* convert_fmr_xlsx.py:63  open(output_file, "w", ...) truncates the file
OpenOut ==
  /\ pc = "open"
  /\ variant = "xlsx"
  /\ \/ /\ err' = "PermissionError"
        /\ pc' = "except"
        /\ UNCHANGED <<outFile, opened>>
     \/ /\ outFile' = OpenForWrite(outFile)
        /\ opened' = TRUE
        /\ pc' = "rows"
        /\ UNCHANGED err
  /\ UNCHANGED <<at, saved, variant, argc, sheet, idx, rows, df, wbOpen, stdout, sysExit,
                 exitCode, lastParse>>

\* convert_fmr_xlsx.py:65-70: one turn of the loop, or its end.  A failure
\* of the row iterator leaves the records written so far (the with block
\* closes the file); a failed write may leave part of a record.
WriteRow ==
  /\ pc = "rows"
  /\ variant = "xlsx"
  /\ \/ /\ idx < Len(sheet)
        /\ err' = "RowError"
        /\ pc' = "except"
        /\ UNCHANGED <<outFile, idx, stdout>>
     \/ /\ idx < Len(sheet)
        /\ \E k \in 0..(Len(sheet[idx + 1]) - 1) :
             outFile' = IF k = 0 THEN outFile
                        ELSE Append(outFile, SubSeq(RowXlsx(sheet[idx + 1]), 1, k))
        /\ err' = "WriteError"
        /\ pc' = "except"
        /\ idx' = idx + 1
        /\ UNCHANGED stdout
     \/ /\ idx < Len(sheet)
        /\ outFile' = Append(outFile, RowXlsx(sheet[idx + 1]))
        /\ idx' = idx + 1
        /\ stdout' = IF (idx + 1) % ProgressEvery = 0 THEN Append(stdout, Msg("progress")) ELSE stdout
        /\ UNCHANGED <<pc, err>>
     \/ /\ idx = Len(sheet)
        /\ stdout' = Append(stdout, Msg("success"))
        /\ pc' = "finally"
        /\ UNCHANGED <<outFile, idx, err>>
  /\ UNCHANGED <<at, saved, variant, argc, sheet, rows, df, opened, wbOpen, sysExit,
                 exitCode, lastParse>>

\* convert_fmr_2025.py:37-41: rows are buffered, nothing is written yet
ReadRow ==
  /\ pc = "rows"
  /\ variant = "fmr2025"
  /\ \/ /\ idx < Len(sheet)
        /\ err' = "RowError"
        /\ pc' = "except"
        /\ UNCHANGED <<rows, idx, stdout>>
     \/ /\ idx < Len(sheet)
        /\ rows' = Append(rows, Row2025(sheet[idx + 1]))
        /\ idx' = idx + 1
        /\ UNCHANGED <<pc, err, stdout>>
     \/ /\ idx = Len(sheet)
        /\ stdout' = Append(stdout, Msg("writing"))
        /\ pc' = "write"
        /\ UNCHANGED <<rows, idx, err>>
  /\ UNCHANGED <<at, saved, variant, argc, sheet, df, outFile, opened, wbOpen, sysExit,
                 exitCode, lastParse>>

\* convert_fmr_2025.py:42-46
WriteOut ==
  /\ pc = "write"
  /\ variant = "fmr2025"
  /\ \/ /\ err' = "PermissionError"
        /\ pc' = "except"
        /\ UNCHANGED <<outFile, opened, stdout>>
     \/ /\ \E k \in 0..(Len(rows) - 1) : outFile' = SubSeq(OpenForWrite(outFile) \o WriteRows(rows), 1, k)
        /\ opened' = TRUE
        /\ err' = "WriteError"
        /\ pc' = "except"
        /\ UNCHANGED stdout
     \/ /\ outFile' = OpenForWrite(outFile) \o WriteRows(rows)
        /\ opened' = TRUE
        /\ stdout' = Append(stdout, Msg("success"))
        /\ pc' = "finally"
        /\ UNCHANGED err
  /\ UNCHANGED <<at, saved, variant, argc, sheet, idx, rows, df, wbOpen, sysExit, exitCode,
                 lastParse>>

\* convert_excel.py:18-21: pandas loads the workbook through the library,
\* whose parser is the one the lookup site holds
ReadExcel(SheetSet, StampSet) ==
  /\ pc = "load"
  /\ variant = "excel"
  /\ \/ \E e \in LoadErrors :
          /\ err' = e
          /\ pc' = "except"
          /\ stdout' = Append(stdout, Msg("reading"))
          /\ UNCHANGED <<sheet, df, wbOpen, idx, lastParse>>
     \/ \E sh \in {s \in SheetSet : Len(s) >= 1}, st \in StampSet, site \in Sites :
          LET p == ParseRecord(TRUE, variant, StrVal(st), site, at[site], at)
          IN  /\ lastParse' = p
              /\ IF p.result = Raise
                 THEN /\ err' = "ValueError"
                      /\ pc' = "except"
                      /\ stdout' = Append(stdout, Msg("reading"))
                      /\ UNCHANGED <<sheet, df, wbOpen, idx>>
                 ELSE /\ sheet' = sh
                      /\ df' = read_excel(sh)
                      /\ idx' = Len(sh)
                      /\ wbOpen' = TRUE
                      /\ stdout' = stdout \o <<Msg("reading"), Msg("found"), Msg("columns")>>
                      /\ pc' = "write"
                      /\ UNCHANGED err
  /\ UNCHANGED <<at, saved, variant, argc, rows, outFile, opened, sysExit, exitCode>>

\* convert_excel.py:23-25, then the script ends: exit status 0
ToCsv ==
  /\ pc = "write"
  /\ variant = "excel"
  /\ \/ /\ err' = "PermissionError"
        /\ pc' = "except"
        /\ stdout' = Append(stdout, Msg("writing"))
        /\ UNCHANGED <<outFile, opened, exitCode>>
     \/ /\ \E k \in 0..Len(df.data) : outFile' = SubSeq(to_csv(df), 1, k)
        /\ opened' = TRUE
        /\ err' = "WriteError"
        /\ pc' = "except"
        /\ stdout' = Append(stdout, Msg("writing"))
        /\ UNCHANGED exitCode
     \/ /\ outFile' = to_csv(df)
        /\ opened' = TRUE
        /\ stdout' = stdout \o <<Msg("writing"), Msg("success")>>
        /\ exitCode' = 0
        /\ pc' = "exited"
        /\ UNCHANGED err
  /\ UNCHANGED <<at, saved, variant, argc, sheet, idx, rows, df, wbOpen, sysExit, lastParse>>

\* the except handlers: the message, (tolerant variants) the traceback, then
\* sys.exit(1); convert_excel has no finally block and exits at once
ExitStatusAfterError == 1

ExceptSwallows ==
  /\ pc = "except"
  /\ stdout' = Append(stdout, ErrMsg(err))
  /\ sysExit' = FALSE
  /\ IF variant = "excel"
     THEN pc' = "exited" /\ exitCode' = 0
     ELSE pc' = "finally" /\ UNCHANGED exitCode
  /\ UNCHANGED <<at, saved, variant, argc, sheet, idx, rows, df, outFile, opened, wbOpen,
                 err, lastParse>>

Except ==
  /\ pc = "except"
  /\ stdout' = IF variant = "excel" THEN Append(stdout, ErrMsg(err))
               ELSE stdout \o <<ErrMsg(err), Msg("traceback")>>
  /\ sysExit' = TRUE
  /\ IF variant = "excel"
     THEN pc' = "exited" /\ exitCode' = ExitStatusAfterError
     ELSE pc' = "finally" /\ UNCHANGED exitCode
  /\ UNCHANGED <<at, saved, variant, argc, sheet, idx, rows, df, outFile, opened, wbOpen,
                 err, lastParse>>

\* convert_fmr_xlsx.py:77-80, convert_fmr_2025.py:52-55, then the process ends
Finally ==
  /\ pc = "finally"
  /\ at' = Restored(variant, at, saved)
  /\ exitCode' = IF sysExit THEN ExitStatusAfterError ELSE 0
  /\ pc' = "exited"
  /\ UNCHANGED <<saved, variant, argc, sheet, idx, rows, df, outFile, opened, wbOpen,
                 stdout, err, sysExit, lastParse>>

\* the finished run is forgotten; the module attributes stay as it left them
Forget ==
  /\ pc = "exited"
  /\ pc' = "idle"
  /\ variant' = "none"
  /\ argc' = 0
  /\ FreshRun
  /\ lastParse' = NoParse
  /\ UNCHANGED at

\* between runs, in the same process: the library parses a timestamp, or a
\* caller invokes a tolerant parser directly (one observed call per pause)
ParseOutside(StampSet) ==
  /\ pc = "idle"
  /\ lastParse = NoParse
  /\ \/ \E st \in StampSet, site \in Sites :
          lastParse' = ParseRecord(FALSE, "none", StrVal(st), site, at[site], at)
     \/ \E v \in Tolerant, x \in {StrVal(st) : st \in StampSet} \cup NonStrings :
          lastParse' = ParseRecord(FALSE, v, x, "direct", Patched, at)
  /\ UNCHANGED <<at, saved, variant, argc, pc, sheet, idx, rows, df, outFile, opened, wbOpen,
                 stdout, err, sysExit, exitCode>>

Next ==
  \/ \E v \in Variants, n \in 0..MaxArgs : StartRun(v, n)
  \/ CheckArgs
  \/ Patch
  \/ Load(FewSheets, FewStamps)
  \/ ReadExcel(FewSheets, FewStamps)
  \/ OpenOut
  \/ WriteRow
  \/ ReadRow
  \/ WriteOut
  \/ ToCsv
  \/ Except
  \/ Finally
  \/ Forget
  \/ ParseOutside(FewStamps)

Spec == Init /\ [][Next]_vars

\* the same runs over every timestamp of the family and the smallest sheets
TinySheets == {sh \in FewSheets : Len(sh) <= 1}

NextStamps ==
  \/ \E v \in Variants, n \in 0..MaxArgs : StartRun(v, n)
  \/ CheckArgs
  \/ Patch
  \/ Load(TinySheets, AllStamps)
  \/ ReadExcel(TinySheets, AllStamps)
  \/ OpenOut
  \/ WriteRow
  \/ ReadRow
  \/ WriteOut
  \/ ToCsv
  \/ Except
  \/ Finally
  \/ Forget
  \/ ParseOutside(AllStamps)

SpecStamps == Init /\ [][NextStamps]_vars

\* the same runs over every worksheet, the metadata timestamp well-formed
NextSheets ==
  \/ \E v \in Variants, n \in 0..MaxArgs : StartRun(v, n)
  \/ CheckArgs
  \/ Patch
  \/ Load(AllSheets, {WellFormed})
  \/ ReadExcel(AllSheets, {WellFormed})
  \/ OpenOut
  \/ WriteRow
  \/ ReadRow
  \/ WriteOut
  \/ ToCsv
  \/ Except
  \/ Finally
  \/ Forget
  \/ ParseOutside({WellFormed})

SpecSheets == Init /\ [][NextSheets]_vars

\* ------------------------------------------------------------- properties
Range(q) == {q[i] : i \in 1..Len(q)}

AllOriginal == \A s \in Sites : at[s] = Original

\* C1: when a run has ended (on any exit path) both module attributes hold
\* the original from_ISO8601 again, so a parse made between runs goes
\* through the original parser; this holds after any number of runs.
C1_RestoredOnEveryExit ==
  /\ pc \in {"idle", "exited"} => AllOriginal
  /\ (~lastParse.during /\ lastParse.site \in Sites) => lastParse.fn = Original

C1_Witness ==
  /\ pc = "exited" /\ variant = "xlsx" /\ exitCode = 1 /\ err = "RowError"
  /\ saved["descriptors_base"] = Original /\ AllOriginal

\* C2: in every tolerant variant, from the call of load_workbook until row
\* iteration ends, both lookup sites hold the tolerant parser.
C2_EverySitePatchedWhileReading ==
  (variant \in Tolerant /\ pc \in {"load", "open", "rows"}) => \A s \in Sites : at[s] = Patched

\* C3: a call of the tolerant parser made by the library during a conversion
\* returns original(repair(s)) whenever that succeeds, and the fallback only
\* when it fails.
C3_DelegatesToOriginal ==
  (lastParse.during /\ lastParse.fn = Patched) =>
    LET o == from_ISO8601(Repair(lastParse.arg.chars))
    IN  /\ o # Raise => lastParse.result = o
        /\ lastParse.result = Now => o = Raise

\* C4: the tolerant parser never raises, and a malformed timestamp never
\* sends a tolerant run into its except handler.
C4_NeverRaisesNeverAborts ==
  /\ lastParse.fn = Patched => lastParse.result # Raise
  /\ variant \in Tolerant => err # "ValueError"

\* C5: in the argument-taking variants a run with other than two positional
\* arguments prints the usage message and exits 1 before any I/O: no
\* workbook opened, the output untouched, the parser never patched.
C5_UsageExitBeforeIO ==
  (variant \in ArgVariants /\ argc # 2) =>
    /\ pc \in {"args", "exited"}
    /\ ~wbOpen /\ ~opened /\ outFile = OldFile
    /\ saved = Unset /\ AllOriginal
    /\ pc = "exited" => (exitCode = 1 /\ stdout = <<Msg("usage")>>)

C5_Witness ==
  pc = "exited" /\ variant = "xlsx" /\ argc = 3 /\ exitCode = 1 /\ stdout = <<Msg("usage")>>

\* the complete output of each variant for a worksheet
FullOutput(v, sh) ==
  CASE v = "xlsx" -> [i \in 1..Len(sh) |-> RowXlsx(sh[i])]
    [] v = "fmr2025" -> WriteRows([i \in 1..Len(sh) |-> Row2025(sh[i])])
    [] v = "excel" -> to_csv(read_excel(sh))

Complete == wbOpen /\ idx = Len(sheet) /\ opened /\ outFile = FullOutput(variant, sheet)

\* C6: a run exits 0 exactly when the workbook was loaded, every row read and
\* the output completely written; an exception is reported with its
\* description and the run exits 1; no run that exits 1 printed success.
C6_ExitStatus ==
  pc = "exited" =>
    /\ exitCode \in {0, 1}
    /\ exitCode = 0 <=> Complete
    /\ err # "none" => (exitCode = 1 /\ ErrMsg(err) \in Range(stdout))
    /\ exitCode = 1 => Msg("success") \notin Range(stdout)

C6_Witness ==
  pc = "exited" /\ variant = "fmr2025" /\ exitCode = 1 /\ err = "WriteError" /\ opened

\* the text a cell is expected to be written as
ExpectedText(c) == IF c.t = "none" THEN <<>> ELSE PyStr(c)

Mirrors(out, sh) ==
  /\ Len(out) = Len(sh)
  /\ \A i \in 1..Len(sh) :
       /\ Len(out[i]) = Len(sh[i])
       /\ \A j \in 1..Len(sh[i]) : out[i][j] = ExpectedText(sh[i][j])

Succeeded == pc = "exited" /\ exitCode = 0

FieldsRender ==
  \A i \in 1..Len(outFile) : \A j \in 1..Len(outFile[i]) :
    LET c == sheet[i][j]
        f == outFile[i][j]
    IN  /\ c.t = "none" => f = <<>>
        /\ c.t = "none" => (f # <<"N", "o", "n", "e">> /\ f # <<"n", "u", "l", "l">>)
        /\ c.t # "none" => f = PyStr(c)
        /\ f = <<>> => (c.t = "none" \/ PyStr(c) = <<>>)

RECURSIVE ZeroPad(_)
\* every run of one or two spaces replaced by a single "0"
ZeroPad(s) ==
  IF s = <<>> THEN <<>>
  ELSE IF Head(s) = " "
       THEN IF Len(s) >= 2 /\ s[2] = " " THEN ZeroPad(Tail(s)) ELSE <<"0">> \o ZeroPad(Tail(s))
       ELSE <<Head(s)>> \o ZeroPad(Tail(s))

\* every space of s stands directly after a separator of seps and before a digit
SinglePadded(s, seps) ==
  /\ HasSpace(s)
  /\ \A i \in 1..Len(s) : s[i] = " " => (i > 1 /\ i < Len(s) /\ s[i - 1] \in seps /\ IsDigit(s[i + 1]))

\* the same, a space possibly doubled
Padded(s, seps) ==
  /\ HasSpace(s)
  /\ \A i \in 1..Len(s) : s[i] = " " =>
       /\ i > 1 /\ i < Len(s)
       /\ s[i - 1] \in seps \/ (s[i - 1] = " " /\ i > 2 /\ s[i - 2] \in seps)
       /\ IsDigit(s[i + 1]) \/ (s[i + 1] = " " /\ s[i - 1] \in seps)

\* C9 (as claimed): the repair zero-pads every timestamp in which a space
\* stands for the leading zero after a separator ('-', 'T' or ':'), and
\* leaves a string without spaces unchanged.
C9_RepairsAfterAnySeparator ==
  (lastParse.fn = Patched /\ lastParse.arg.t = "str") =>
    LET s == lastParse.arg.chars
        f == lastParse.fixed.chars
    IN  /\ ~HasSpace(s) => f = s
        /\ SinglePadded(s, {"-", "T", ":"}) => (f = ZeroPad(s) /\ ~HasSpace(f))

\* C9 (amended): the repair zero-pads every timestamp whose spaces stand,
\* singly or doubled, directly after a '-' or a 'T' and before a digit, and
\* leaves a string without spaces unchanged.
C9_RepairsAfterDashOrT ==
  (lastParse.fn = Patched /\ lastParse.arg.t = "str") =>
    LET s == lastParse.arg.chars
        f == lastParse.fixed.chars
    IN  /\ ~HasSpace(s) => f = s
        /\ Padded(s, {"-", "T"}) => (f = ZeroPad(s) /\ ~HasSpace(f))

C9_Witness ==
  /\ lastParse.fn = Patched /\ lastParse.arg = StrVal(StampOf("sp", "dsp", "sp", "two"))
  /\ lastParse.fixed = StrVal(StampOf("pad", "pad", "pad", "two"))

\* C10: a tolerant run opens the output only after the workbook is loaded, so
\* a failed load leaves the old file; convert_fmr_2025 opens it only after
\* every row is read, so a failed row iteration leaves the old file; in
\* convert_fmr_xlsx a failed row iteration leaves exactly the records of the
\* rows read before it.
C10_OutputOpenedLate ==
  /\ (variant \in Tolerant /\ opened) => wbOpen
  /\ (variant \in Tolerant /\ ~wbOpen) => outFile = OldFile
  /\ (variant = "fmr2025" /\ opened) => idx = Len(sheet)
  /\ (variant = "fmr2025" /\ err = "RowError") => outFile = OldFile
  /\ (variant = "xlsx" /\ err = "RowError") => outFile = [i \in 1..idx |-> RowXlsx(sheet[i])]

C10_Witness ==
  /\ pc = "exited" /\ variant = "xlsx" /\ err = "RowError" /\ idx = 1 /\ Len(sheet) = 2
  /\ Len(outFile) = 1
====
